---- MODULE Spec2Model ----
(***************************************************************************)
(* A model of lager/context.hpp: action domains and their merge, the       *)
(* dispatcher and its cross-domain construction, contexts, effects,        *)
(* is_empty_effect, sequence and invoke_reducer.                           *)
(*                                                                         *)
(* The header is present in two revisions in the source file.  The model   *)
(* follows the later one (lines 407-965), in which effect<> and result<>   *)
(* are class templates; the code shared with the earlier revision          *)
(* (lines 1-405) is noted in the comments of the definitions concerned.    *)
(***************************************************************************)
EXTENDS Integers, Sequences, FiniteSets, TLC

VARIABLES
    conv,       \* std::is_convertible over the action types: a set of <<from, to>>
    pc,         \* position of the scenario that is being run
    d1, d2,     \* merge: the two ActionOrActions arguments
    merged,     \* merge: the value of merge_actions_t<d1, d2>
    root,       \* the context built from a handler, an event loop and deps
    view,       \* the context obtained from root by the conversions made so far
    narrowed,   \* how many conversions led from root to view
    sent,       \* the dispatch() calls made: <<which context, the action>>
    log,        \* what the code under the model called, in call order
    thrown,     \* whether the last call left by an exception
    args,       \* sequence: the effects given to sequence(...)
    composed,   \* sequence: the effect that sequence(...) returned
    call,       \* invoke_reducer: its arguments (reducer, model, action, Deps)
    returned,   \* invoke_reducer: the model it returned
    handles,    \* the event_loop_impl objects made so far: the host loop of each
    root2,      \* a second context built from a handler and a host loop
    lifted,     \* a context made from view with a converter
    built       \* result: the construction attempted and what came of it

vars == <<conv, pc, d1, d2, merged, root, view, narrowed, sent, log, thrown,
          args, composed, call, returned, handles, root2, lifted, built>>

mergeVars == <<d1, d2, merged>>
contextVars == <<root, view, narrowed>>
sequenceVars == <<args, composed>>
reducerVars == <<call, returned>>
loopVars == <<handles, root2, lifted>>

(***************************************************************************)
(* Bounds of the model.                                                    *)
(***************************************************************************)
MaxDomainLen == 2
MaxNarrow == 2
MaxEffects == 3

(***************************************************************************)
(* Action types.  "A" and "B" are plain action structs, "V" plays the      *)
(* part of a sum type such as std::variant<A, B>.                          *)
(***************************************************************************)
Types == {"A", "B", "V"}

Identity == {<<t, t>> : t \in Types}

\* Every convertibility relation in which each type converts to itself.
ReflexiveRelations ==
    {r \cup Identity : r \in SUBSET ((Types \X Types) \ Identity)}

\* The relation of the documentation's example: A and B convert to V.
VariantConv == Identity \cup {<<"A", "V">>, <<"B", "V">>}

is_convertible(from, to) == <<from, to>> \in conv

None == "none"

(***************************************************************************)
(* Type arguments that name an action domain: a bare action type, an       *)
(* actions<Ts...> list, or void.                                           *)
(***************************************************************************)
Bare(t) == [wrapped |-> FALSE, members |-> <<t>>]

Actions(ts) == [wrapped |-> TRUE, members |-> ts]

Void == [wrapped |-> FALSE, members |-> <<>>]

\* The sequences of at most n distinct types (a type list names no type twice).
SeqsNoDup(n) ==
    {s \in UNION {[1..k -> Types] : k \in 0..n} :
        \A i, j \in DOMAIN s : i # j => s[i] # s[j]}

\* The non-empty domains of at most MaxDomainLen distinct members.
Domains ==
    {Bare(t) : t \in Types} \cup
    {Actions(ts) : ts \in SeqsNoDup(MaxDomainLen) \ {<<>>}}

\* as_actions_t: the member list of the domain, whatever its spelling.
as_actions_t(d) == d.members

(***************************************************************************)
(* detail::find_convertible_action_aux: the place, in declaration order,   *)
(* of the first candidate that the action converts to.  0 stands for the   *)
(* compile error of .value() on hana's nothing, when there is none.        *)
(***************************************************************************)
find_convertible_action_aux(act, candidates) ==
    LET hits == {i \in 1..Len(candidates) : is_convertible(act, candidates[i])}
    IN  IF hits = {} THEN 0
        ELSE CHOOSE i \in hits : \A j \in hits : i <= j

(***************************************************************************)
(* detail::merge_actions_aux and its two lambdas.                          *)
(***************************************************************************)
has_convertible_reversed(seq, x) ==
    \E i \in 1..Len(seq) : is_convertible(seq[i], x)

has_convertible(seq, x) ==
    \E i \in 1..Len(seq) : is_convertible(x, seq[i])

remove_convertibles_subsumed(seq, x) ==
    SelectSeq(seq, LAMBDA t : ~is_convertible(t, x))

\* hana::remove_if(seq, [](auto t) { return is_convertible<x, t>{}; })
remove_convertibles(seq, x) ==
    SelectSeq(seq, LAMBDA t : ~is_convertible(x, t))

\* The function folded over a1: the accumulator after member x.
merge_step(acc, x) ==
    IF has_convertible(acc, x)
    THEN acc
    ELSE Append(remove_convertibles(acc, x), x)

\* boost::hana::fold(a1, a2, f): f applied left to right, starting from a2.
RECURSIVE merge_fold(_, _)
merge_fold(a1, acc) ==
    IF a1 = <<>> THEN acc
    ELSE merge_fold(Tail(a1), merge_step(acc, Head(a1)))

merge_normalize_always_wrapped(result) == Actions(result)

\* The last statement of merge_actions_aux: one member is returned bare.
merge_normalize(result) ==
    IF Len(result) = 1 THEN Bare(result[1]) ELSE Actions(result)

\* What stands for a type or a call that does not compile.
IllFormed == [ill_formed |-> TRUE]

\* merge_actions_aux(a1, a2): its two static_asserts reject an empty a1 and
\* an empty a2.
merge_actions_aux(a1, a2) ==
    IF Len(a1) = 0 \/ Len(a2) = 0
    THEN IllFormed
    ELSE merge_normalize(merge_fold(a1, a2))

merge_actions_t(x1, x2) == merge_actions_aux(as_actions_t(x1), as_actions_t(x2))

(***************************************************************************)
(* detail::are_compatible_actions_aux with the identity converter: every   *)
(* member of a1 converts to some member of a2.                             *)
(***************************************************************************)
are_compatible_actions_v(x1, x2) ==
    LET a1 == as_actions_t(x1)
        a2 == as_actions_t(x2)
    IN  \A i \in 1..Len(a1) : \E j \in 1..Len(a2) : is_convertible(a1[i], a2[j])

(***************************************************************************)
(* lager::deps is not part of this file.  A deps value is modelled as the  *)
(* set of services it carries; deps<As...> converts to deps<Bs...> when    *)
(* it carries every service of Bs.                                         *)
(***************************************************************************)
Services == {"svc"}

DepsValues == SUBSET Services

deps_convertible(from, to) == to \subseteq from

(***************************************************************************)
(* Action values.  A value remembers the type it has, the dispatch() call  *)
(* it comes from and the conversions it went through: passing a value to   *)
(* a parameter of another type constructs a new value of that type.        *)
(***************************************************************************)
ActionValue(t, n) == [ty |-> t, id |-> n, trail |-> <<>>]

convert_to(v, t) ==
    IF v.ty = t THEN v
    ELSE [ty |-> t, id |-> v.id, trail |-> Append(v.trail, <<v.ty, t>>)]

(***************************************************************************)
(* Converters: the callables given to the converting constructors.         *)
(* "identity" returns its argument; "make_B" builds a B from whatever it   *)
(* is given, whether or not the argument's type converts to B.  A call of  *)
(* a converter leaves <<converter, argument type>> in the trail of the     *)
(* value it returns.                                                       *)
(***************************************************************************)
Converters == {"identity", "make_B"}

\* std::result_of_t<Converter(Action)>
converter_result(c, t) ==
    CASE c = "identity" -> t
      [] c = "make_B"   -> "B"

\* conv(act)
apply_converter(c, v) ==
    [ty    |-> converter_result(c, v.ty),
     id    |-> v.id,
     trail |-> Append(v.trail, <<c, v.ty>>)]

(***************************************************************************)
(* detail::dispatcher<actions<As...>>: one std::function<void(A)> per      *)
(* member A.  A std::function is modelled by the parameter types a call    *)
(* passes through, outermost first: <<A, B, V>> is a function<void(A)>     *)
(* that holds a function<void(B)> that holds a function<void(V)> that      *)
(* holds the handler the first dispatcher was built from.  A converter's   *)
(* name in the list stands for the lambda of dispatcher_fn_aux: the value  *)
(* that reaches it is given to the converter, and the converter's result   *)
(* to the function that follows.                                           *)
(***************************************************************************)

\* dispatcher(Fn other): every member's function holds the same callable.
dispatcher_from_fn(members) == [i \in 1..Len(members) |-> <<members[i]>>]

dispatcher_from_dispatcher_by_position(members, other_members, other) ==
    [i \in 1..Len(members) |->
        LET k == IF i <= Len(other_members) THEN i ELSE Len(other_members)
        IN  IF other_members[k] = members[i]
            THEN other[k]
            ELSE <<members[i]>> \o other[k]]

\* dispatcher(dispatcher<actions<As...>> other): the function for member A is
\* built from other's function for the first As that A converts to; a
\* function<void(A)> built from a function<void(A)> is a copy of it.  A
\* dispatcher over the same member list is copied by the copy constructor.
dispatcher_from_dispatcher(members, other_members, other) ==
    IF members = other_members
    THEN other
    ELSE [i \in 1..Len(members) |->
            LET k == find_convertible_action_aux(members[i], other_members)
            IN  IF other_members[k] = members[i]
                THEN other[k]
                ELSE <<members[i]>> \o other[k]]

dispatcher_fn_aux_last_convertible(members, other_members, other, c) ==
    [i \in 1..Len(members) |->
        LET r == converter_result(c, members[i])
            k == CHOOSE j \in 1..Len(other_members) :
                    /\ is_convertible(r, other_members[j])
                    /\ \A l \in (j + 1)..Len(other_members) :
                          ~is_convertible(r, other_members[l])
        IN  <<members[i], c>> \o other[k]]

\* dispatcher(dispatcher<actions<As...>> other, Converter conv): the function
\* for member A holds the lambda of dispatcher_fn_aux<A>, which holds conv
\* and a copy of other's function for the first As that the result type of
\* conv(A) converts to.
dispatcher_fn_aux(members, other_members, other, c) ==
    [i \in 1..Len(members) |->
        LET k == find_convertible_action_aux(converter_result(c, members[i]),
                                             other_members)
        IN  <<members[i], c>> \o other[k]]

\* A call of a std::function of the dispatcher with value v: the value is
\* passed by value through every parameter and given to every converter
\* on the way, and reaches the handler, which is recorded with the member
\* function it was held by.
RECURSIVE pass_through(_, _)
pass_through(chain, v) ==
    IF chain = <<>> THEN v
    ELSE IF Head(chain) \in Converters
    THEN pass_through(Tail(chain), apply_converter(Head(chain), v))
    ELSE pass_through(Tail(chain), convert_to(v, Head(chain)))

invoke_function(chain, v) ==
    [ev |-> "deliver", slot |-> chain[Len(chain)], val |-> pass_through(chain, v)]

overload_first_viable(members, t) ==
    LET viable == {i \in 1..Len(members) : is_convertible(t, members[i])}
    IN  IF viable = {} THEN 0
        ELSE CHOOSE i \in viable : \A j \in viable : i <= j

\* dispatcher_(act): overload resolution among the members' operator()s for
\* an argument of type t.  The member of type t itself is an exact match;
\* failing that a single viable member is taken, and 0 stands for a call
\* that does not compile (no viable, or several equally good, overloads).
overload(members, t) ==
    LET exact  == {i \in 1..Len(members) : members[i] = t}
        viable == {i \in 1..Len(members) : is_convertible(t, members[i])}
    IN  IF exact # {} THEN CHOOSE i \in exact : TRUE
        ELSE IF Cardinality(viable) = 1 THEN CHOOSE i \in viable : TRUE
        ELSE 0

(***************************************************************************)
(* lager::context<Actions, Deps>.                                          *)
(***************************************************************************)

\* context(Dispatcher dispatcher, EventLoop& loop, deps_t deps)
context_from_handler(x, deps, handle) ==
    [actions    |-> x,
     deps       |-> deps,
     dispatcher |-> dispatcher_from_fn(as_actions_t(x)),
     loop       |-> handle]

\* The enable_if of context(const context<Actions_, Deps_>& ctx).
context_convertible(ctx, x, deps) ==
    /\ are_compatible_actions_v(x, ctx.actions)
    /\ deps_convertible(ctx.deps, deps)

\* context(const context<Actions_, Deps_>& ctx)
context_from_context(ctx, x, deps) ==
    [actions    |-> x,
     deps       |-> deps,
     dispatcher |-> dispatcher_from_dispatcher(as_actions_t(x),
                                               as_actions_t(ctx.actions),
                                               ctx.dispatcher),
     loop       |-> ctx.loop]

\* are_compatible_actions_v<Actions1, Actions2, Converter>: the result of
\* the converter for every member of Actions1 converts to a member of
\* Actions2.
are_compatible_actions_conv(x1, x2, c) ==
    LET a1 == as_actions_t(x1)
        a2 == as_actions_t(x2)
    IN  \A i \in 1..Len(a1) : \E j \in 1..Len(a2) :
            is_convertible(converter_result(c, a1[i]), a2[j])

\* The enable_if of context(const context<Actions_, Deps_>& ctx, Converter c).
context_convertible_conv(ctx, x, deps, c) ==
    /\ are_compatible_actions_conv(x, ctx.actions, c)
    /\ deps_convertible(ctx.deps, deps)

context_from_context_conv_new_handle(ctx, x, deps, c) ==
    [actions    |-> x,
     deps       |-> deps,
     dispatcher |-> dispatcher_fn_aux(as_actions_t(x),
                                      as_actions_t(ctx.actions),
                                      ctx.dispatcher, c),
     loop       |-> ctx.loop + 1]

\* context(const context<Actions_, Deps_>& ctx, Converter c)
context_from_context_conv(ctx, x, deps, c) ==
    [actions    |-> x,
     deps       |-> deps,
     dispatcher |-> dispatcher_fn_aux(as_actions_t(x),
                                      as_actions_t(ctx.actions),
                                      ctx.dispatcher, c),
     loop       |-> ctx.loop]

\* std::make_shared<detail::event_loop_impl<EventLoop>>(loop): a new
\* event_loop_impl that refers to the host loop; its handle is its position.
make_event_loop_impl(hs, host) == Append(hs, host)

\* ctx.loop().async(fn): event_loop_impl::async passes fn to its host loop.
loop_async(ctx, hs) == [handle |-> ctx.loop, host |-> hs[ctx.loop]]

\* context::dispatch(act): the events of the call, in order.
dispatch(ctx, v) ==
    LET k == overload(as_actions_t(ctx.actions), v.ty)
    IN  <<invoke_function(ctx.dispatcher[k], v)>>

dispatch_compiles(ctx, t) == overload(as_actions_t(ctx.actions), t) # 0

NoContext == [actions |-> Void, deps |-> {}, dispatcher |-> <<>>, loop |-> 0]

(***************************************************************************)
(* Effects.  A value that can be called with a context is one of           *)
(*   cls "effect":   a lager::effect<Actions, Deps>, the class derived     *)
(*                   from std::function<void(const context_t&)>;           *)
(*   cls "function": a plain std::function<void(const context_t&)>;        *)
(*   cls "callable": any other callable, such as a generic lambda.         *)
(* fn is what the std::function holds (or, for a callable, what it is):    *)
(* nothing, a copy of lager::noop, a procedure written by the user, the    *)
(* lambda that sequence returns, or another effect object.                 *)
(***************************************************************************)
NullFn == [kind |-> "null"]

\* A std::function stores a copy of the object it is built from: the noop it
\* holds is that copy, an object other than the global lager::noop.
HeldNoop == [kind |-> "noop", at |-> "copy held by the std::function"]

AddressOfNoop == "lager::noop"

\* A user's procedure: it records that it ran and may dispatch one action.
Body(n, t) == [kind |-> "body", id |-> n, sends |-> t]

SeqFn(a, b) == [kind |-> "seq", a |-> a, b |-> b]

HeldEffect(e) == [kind |-> "held", e |-> e]

effect_t(x, deps, fn) == [cls |-> "effect", actions |-> x, deps |-> deps, fn |-> fn]

function_t(x, deps, fn) ==
    [cls |-> "function", actions |-> x, deps |-> deps, fn |-> fn]

callable_t(x, deps, fn) ==
    [cls |-> "callable", actions |-> x, deps |-> deps, fn |-> fn]

\* v.target<decltype(noop)>(): the address of the held object when it is a
\* noop_t, nullptr otherwise.
target_noop(v) == IF v.fn.kind = "noop" THEN v.fn.at ELSE "nullptr"

\* is_empty_effect(const std::function<void(Ctx)>& v)
is_empty_effect_function(v) ==
    v.fn.kind = "null" \/ target_noop(v) = AddressOfNoop

\* is_empty_effect(const Eff&)
is_empty_effect_generic(v) == FALSE

(***************************************************************************)
(* is_empty_effect(v): overload resolution between the two templates.      *)
(* For a plain std::function both bind the argument directly and the       *)
(* more specialised std::function overload is taken.  For any other type   *)
(* the generic overload is an exact match; that includes lager::effect,    *)
(* for which the std::function overload would need a derived-to-base       *)
(* conversion and so ranks below the generic one.                          *)
(***************************************************************************)
is_empty_effect(v) ==
    IF v.cls = "function"
    THEN is_empty_effect_function(v)
    ELSE is_empty_effect_generic(v)

\* effect(effect<A2, D2> e), or the copy constructor when the types agree:
\* a result_t built from an effect of another type holds that effect.
effect_from_effect(x, deps, e) ==
    IF e.actions = x /\ e.deps = deps
    THEN e
    ELSE effect_t(x, deps, HeldEffect(e))

\* Deps1.merge(Deps2), owned by lager::deps: the services of both.
deps_merge(ds1, ds2) == ds1 \cup ds2

sequence_b_first(a, b) ==
    IF a = IllFormed \/ b = IllFormed
    THEN IllFormed
    ELSE
    LET actions_t == merge_actions_t(a.actions, b.actions)
        deps_t    == deps_merge(a.deps, b.deps)
    IN  IF actions_t = IllFormed
        THEN IllFormed
        ELSE IF is_empty_effect(a) /\ is_empty_effect(b)
        THEN effect_t(actions_t, deps_t, HeldNoop)
        ELSE IF is_empty_effect(a)
        THEN effect_from_effect(actions_t, deps_t, b)
        ELSE IF is_empty_effect(b)
        THEN effect_from_effect(actions_t, deps_t, a)
        ELSE effect_t(actions_t, deps_t, SeqFn(b, a))

\* sequence(effect<Actions1, Deps1> a, effect<Actions2, Deps2> b).  Its
\* return type names merge_actions_t<Actions1, Actions2>: the call does not
\* compile when that type does not, nor when an argument does not.
sequence(a, b) ==
    IF a = IllFormed \/ b = IllFormed
    THEN IllFormed
    ELSE
    LET actions_t == merge_actions_t(a.actions, b.actions)
        deps_t    == deps_merge(a.deps, b.deps)
    IN  IF actions_t = IllFormed
        THEN IllFormed
        ELSE IF is_empty_effect(a) /\ is_empty_effect(b)
        THEN effect_t(actions_t, deps_t, HeldNoop)
        ELSE IF is_empty_effect(a)
        THEN effect_from_effect(actions_t, deps_t, b)
        ELSE IF is_empty_effect(b)
        THEN effect_from_effect(actions_t, deps_t, a)
        ELSE effect_t(actions_t, deps_t, SeqFn(a, b))

\* sequence(a, b, effects...): sequence(sequence(a, b), effects...)
RECURSIVE sequence_n(_)
sequence_n(es) ==
    IF Len(es) = 2
    THEN sequence(es[1], es[2])
    ELSE sequence_n(<<sequence(es[1], es[2])>> \o SubSeq(es, 3, Len(es)))

(***************************************************************************)
(* e(ctx): the call of an effect with a context, run to completion.  st    *)
(* is the log so far and whether an exception is propagating.  The         *)
(* context is converted to the effect's own context type when the two      *)
(* differ; a callable that takes auto&& gets the context as it is.         *)
(***************************************************************************)
RECURSIVE invoke_effect(_, _, _)
invoke_effect(e, ctx, st) ==
    IF st.thrown THEN st
    ELSE
    LET c == IF e.cls = "callable" \/ (ctx.actions = e.actions /\ ctx.deps = e.deps)
             THEN ctx
             ELSE context_from_context(ctx, e.actions, e.deps)
    IN  CASE e.fn.kind = "null" ->
               [log    |-> Append(st.log, [ev |-> "bad_function_call"]),
                thrown |-> TRUE]
          [] e.fn.kind = "noop" ->
               [log    |-> Append(st.log, [ev |-> "noop"]),
                thrown |-> FALSE]
          [] e.fn.kind = "body" ->
               [log    |-> Append(st.log,
                                  [ev |-> "body", id |-> e.fn.id, loop |-> c.loop])
                           \o (IF e.fn.sends = None THEN <<>>
                               ELSE dispatch(c, ActionValue(e.fn.sends, e.fn.id))),
                thrown |-> FALSE]
          [] e.fn.kind = "seq" ->
               invoke_effect(e.fn.b, c, invoke_effect(e.fn.a, c, st))
          [] e.fn.kind = "held" ->
               invoke_effect(e.fn.e, c, st)

\* Whether e(ctx) compiles: the context converts to the effect's context.
invocable_with(e, ctx) ==
    \/ e.cls = "callable"
    \/ (ctx.actions = e.actions /\ ctx.deps = e.deps)
    \/ context_convertible(ctx, e.actions, e.deps)

NoEffect == effect_t(Void, {}, NullFn)

(***************************************************************************)
(* Reducers.  A model is the list of the action types reduced so far, so   *)
(* that every reduction gives a model that differs from the one before.    *)
(* A reducer returns a bare model, or a pair whose second part is an       *)
(* effect: a result<Model, Action, Deps> (a std::pair<Model, effect>), a   *)
(* std::pair with a std::function, or a std::pair with another callable.   *)
(***************************************************************************)
PlainReducer == [paired |-> FALSE, second |-> NoEffect]

EffectReducer(e) == [paired |-> TRUE, second |-> e]

\* result(Model m): the effect is built from lager::noop.
result_from_model(x, deps) == effect_t(x, deps, HeldNoop)

result_check_deps_reversed(m2, a2, deps2, model, action, deps) ==
    /\ is_convertible(m2, model)
    /\ are_compatible_actions_v(a2, action)
    /\ deps_convertible(deps2, deps)

\* result<Model, Action, Deps>::check<M2, A2, D2>(): its three static_asserts.
result_check(m2, a2, deps2, model, action, deps) ==
    /\ is_convertible(m2, model)
    /\ are_compatible_actions_v(a2, action)
    /\ deps_convertible(deps, deps2)

\* result(result<M2, A2, D2> r), for a result type other than r's: the pair
\* is built from r when check() holds, and the program is ill-formed when
\* it does not.  to and r carry the types as [model, actions, deps].
result_from_result(to, r) ==
    IF result_check(r.model, r.actions, r.deps, to.model, to.actions, to.deps)
    THEN [outcome |-> "constructed",
          first   |-> to.model,
          second  |-> effect_from_effect(to.actions, to.deps, r.second)]
    ELSE [outcome |-> "ill-formed"]

\* result(M2 m, effect<A2, D2> e)
result_from_model_effect(to, m2, e) ==
    IF result_check(m2, e.actions, e.deps, to.model, to.actions, to.deps)
    THEN [outcome |-> "constructed",
          first   |-> to.model,
          second  |-> effect_from_effect(to.actions, to.deps, e)]
    ELSE [outcome |-> "ill-formed"]

\* std::invoke(reducer, model, action)
reducer_call(r, m, act) ==
    [paired |-> r.paired, first |-> Append(m, act.ty), second |-> r.second]

\* has_effect_v<Reducer, Model, Action, Deps>: std::get<1> of what the
\* reducer returns converts to effect<Action, Deps>.  An effect<A2, D2>
\* converts by the copy constructor or by effect(effect<A2, D2>); any other
\* callable converts by the constructor template inherited from
\* std::function when it can be called with a const context<Action, Deps>&.
\* That template does not take a std::function of effect's own base type,
\* and the copy constructor of the base is not inherited: a plain
\* std::function<void(const context<Action, Deps>&)> does not convert.
has_effect(ret, x, deps) ==
    /\ ret.paired
    /\ CASE ret.second.cls = "callable" -> TRUE
         [] ret.second.cls = "function" ->
               /\ ~(ret.second.actions = x /\ ret.second.deps = deps)
               /\ are_compatible_actions_v(ret.second.actions, x)
               /\ deps_convertible(deps, ret.second.deps)
         [] ret.second.cls = "effect" ->
               /\ are_compatible_actions_v(ret.second.actions, x)
               /\ deps_convertible(deps, ret.second.deps)

invoke_reducer_effect_twice(r, m, act) ==
    LET ret == reducer_call(r, m, act)
    IN  [returned |-> ret.first,
         events   |-> <<[ev |-> "reducer", model |-> m, action |-> act],
                        [ev |-> "effect_handler", effect |-> ret.second],
                        [ev |-> "effect_handler", effect |-> ret.second]>>]

invoke_reducer_effect_handler_first(r, m, act) ==
    LET ret == reducer_call(r, m, act)
    IN  [returned |-> ret.first,
         events   |-> (IF ~is_empty_effect(ret.second)
                       THEN <<[ev |-> "effect_handler", effect |-> ret.second]>>
                       ELSE <<>>) \o
                      <<[ev |-> "reducer", model |-> m, action |-> act]>>]

\* invoke_reducer, enabled when has_effect_v: what it returns and what it
\* calls, in order.
invoke_reducer_effect(r, m, act) ==
    LET ret == reducer_call(r, m, act)
    IN  [returned |-> ret.first,
         events   |-> <<[ev |-> "reducer", model |-> m, action |-> act]>> \o
                      (IF ~is_empty_effect(ret.second)
                       THEN <<[ev |-> "effect_handler", effect |-> ret.second]>>
                       ELSE <<>>)]

invoke_reducer_plain_keeps_model(r, m, act) ==
    [returned |-> m,
     events   |-> <<[ev |-> "reducer", model |-> m, action |-> act]>>]

\* invoke_reducer, enabled when not has_effect_v: what the reducer returns
\* is returned as a Model, which does not compile for a pair.
invoke_reducer_plain(r, m, act) ==
    LET ret == reducer_call(r, m, act)
    IN  IF ret.paired
        THEN IllFormed
        ELSE [returned |-> ret.first,
              events   |-> <<[ev |-> "reducer", model |-> m, action |-> act]>>]

\* invoke_reducer<Deps>(reducer, model, action, handler)
invoke_reducer(r, m, act, deps) ==
    IF has_effect(reducer_call(r, m, act), Bare(act.ty), deps)
    THEN invoke_reducer_effect(r, m, act)
    ELSE invoke_reducer_plain(r, m, act)

NoCall == [reducer |-> PlainReducer, model |-> <<>>,
           action |-> ActionValue("A", 0), deps |-> {}]

NoResult == [outcome |-> "none"]

(***************************************************************************)
(* Scenario "merge": two domains are drawn and merged.                     *)
(***************************************************************************)
InitMerge ==
    /\ conv \in ReflexiveRelations
    /\ pc = "start"
    /\ d1 \in Domains
    /\ d2 \in Domains
    /\ merged = Void
    /\ root = NoContext /\ view = NoContext /\ narrowed = 0
    /\ sent = <<>> /\ log = <<>> /\ thrown = FALSE
    /\ args = <<>> /\ composed = NoEffect
    /\ call = NoCall /\ returned = <<>>
    /\ handles = <<>> /\ root2 = NoContext /\ lifted = NoContext
    /\ built = NoResult

MergeActions ==
    /\ pc = "start"
    /\ merged' = merge_actions_t(d1, d2)
    /\ pc' = "merged"
    /\ UNCHANGED <<conv, d1, d2, contextVars, sent, log, thrown, sequenceVars, reducerVars,
                 loopVars, built>>

NextMerge == MergeActions

SpecMerge == InitMerge /\ [][NextMerge]_vars

(***************************************************************************)
(* Scenario "context": a context is built over a domain, converted to      *)
(* contexts over other domains, and an action is dispatched on one of      *)
(* them.                                                                   *)
(***************************************************************************)
ContextConvs ==
    {Identity,
     VariantConv,
     Identity \cup {<<"A", "B">>, <<"A", "V">>, <<"B", "V">>},
     Identity \cup {<<"A", "B">>, <<"B", "A">>},
     Identity \cup {<<"A", "B">>, <<"B", "V">>}}

InitContext ==
    /\ conv \in ContextConvs
    /\ pc = "start"
    /\ d1 = Void /\ d2 = Void /\ merged = Void
    /\ root = NoContext /\ view = NoContext /\ narrowed = 0
    /\ sent = <<>> /\ log = <<>> /\ thrown = FALSE
    /\ args = <<>> /\ composed = NoEffect
    /\ call = NoCall /\ returned = <<>>
    /\ handles = <<>> /\ root2 = NoContext /\ lifted = NoContext
    /\ built = NoResult

HostLoops == {"loop1", "loop2"}

\* The store builds its context from its own dispatch function and the
\* event loop it runs on, "loop1".
MakeContext ==
    /\ pc = "start"
    /\ \E x \in Domains, deps \in DepsValues :
          /\ handles' = make_event_loop_impl(handles, "loop1")
          /\ root' = context_from_handler(x, deps, Len(handles'))
          /\ view' = root'
    /\ pc' = "ready"
    /\ UNCHANGED <<conv, mergeVars, narrowed, sent, log, thrown, sequenceVars,
                   reducerVars, root2, lifted, built>>

\* Another store builds a context over the same domain, on an event loop
\* of its own or on the first store's; no context is converted after that.
MakeSecond ==
    /\ pc = "ready"
    /\ \E host \in HostLoops :
          /\ handles' = make_event_loop_impl(handles, host)
          /\ root2' = context_from_handler(root.actions, root.deps, Len(handles'))
    /\ pc' = "second"
    /\ UNCHANGED <<conv, mergeVars, contextVars, sent, log, thrown,
                   sequenceVars, reducerVars, lifted, built>>

\* context<x, deps> made from the current view, without a converter.  With
\* the view's own type this is a copy.
Narrow ==
    /\ pc = "ready"
    /\ lifted = NoContext
    /\ narrowed < MaxNarrow
    /\ \E x \in Domains \cup {Void}, deps \in DepsValues :
          /\ context_convertible(view, x, deps)
          /\ view' = context_from_context(view, x, deps)
    /\ narrowed' = narrowed + 1
    /\ UNCHANGED <<conv, pc, mergeVars, root, sent, log, thrown, sequenceVars,
                   reducerVars, loopVars, built>>

\* context<x, Deps> made from the last view with a converter, Deps being
\* the view's.
Lift ==
    /\ pc = "ready"
    /\ lifted = NoContext
    /\ \E x \in Domains, c \in Converters :
          /\ context_convertible_conv(view, x, view.deps, c)
          /\ lifted' = context_from_context_conv(view, x, view.deps, c)
    /\ UNCHANGED <<conv, pc, mergeVars, contextVars, sent, log, thrown,
                   sequenceVars, reducerVars, handles, root2, built>>

ContextNamed(which) ==
    CASE which = "root"   -> root
      [] which = "view"   -> view
      [] which = "lifted" -> lifted
      [] which = "root2"  -> root2

\* ctx.dispatch(act) for an action of type t: on the root before any
\* context was made from it, on the last view before a context was made
\* from it with a converter, or on that context.
Dispatch ==
    /\ pc = "ready"
    /\ \E which \in {"root", "view", "lifted"}, t \in Types :
          LET ctx == ContextNamed(which)
              v   == ActionValue(t, Len(sent) + 1)
          IN  /\ ctx # NoContext
              /\ which = "root" => narrowed = 0
              /\ which # "lifted" => lifted = NoContext
              /\ dispatch_compiles(ctx, t)
              /\ sent' = Append(sent, [on |-> which, val |-> v])
              /\ log' = log \o dispatch(ctx, v)
    /\ pc' = "dispatched"
    /\ UNCHANGED <<conv, mergeVars, contextVars, thrown, sequenceVars,
                   reducerVars, loopVars, built>>

\* ctx.loop().async(fn) on every context made so far, one after the other.
LoopAsync ==
    /\ pc \in {"ready", "second"}
    /\ LET made  == SelectSeq(<<"root", "view", "lifted", "root2">>,
                              LAMBDA which : ContextNamed(which) # NoContext)
           calls == [i \in 1..Len(made) |->
                        [on   |-> made[i],
                         call |-> loop_async(ContextNamed(made[i]), handles)]]
       IN  log' = log \o calls
    /\ pc' = "scheduled"
    /\ UNCHANGED <<conv, mergeVars, contextVars, sent, thrown, sequenceVars,
                   reducerVars, loopVars, built>>

NextContext ==
    MakeContext \/ MakeSecond \/ Narrow \/ Lift \/ Dispatch \/ LoopAsync

SpecContext == InitContext /\ [][NextContext]_vars

(***************************************************************************)
(* Scenario "sequence": effects are drawn, combined by sequence(...) and   *)
(* the effect returned is called with a context of its own type.           *)
(***************************************************************************)
EffectDomains == {Bare("A"), Bare("V"), Actions(<<"A", "B">>)}

\* The n-th argument: null, a noop, or a procedure that records n.
InputEffects(n) ==
    {effect_t(x, {}, fn) :
        x \in EffectDomains,
        fn \in {NullFn, HeldNoop, Body(n, None), Body(n, "A")}}

RECURSIVE ArgLists(_)
ArgLists(n) ==
    IF n = 0 THEN {<<>>}
    ELSE {Append(s, e) : s \in ArgLists(n - 1), e \in InputEffects(n)}

InitSequence ==
    /\ conv = VariantConv
    /\ pc = "start"
    /\ d1 = Void /\ d2 = Void /\ merged = Void
    /\ root = NoContext /\ view = NoContext /\ narrowed = 0
    /\ sent = <<>> /\ log = <<>> /\ thrown = FALSE
    /\ args \in UNION {ArgLists(n) : n \in 2..MaxEffects}
    /\ composed = NoEffect
    /\ call = NoCall /\ returned = <<>>
    /\ handles = <<>> /\ root2 = NoContext /\ lifted = NoContext
    /\ built = NoResult

\* composed = sequence(args...)
Sequence ==
    /\ pc = "start"
    /\ composed' = sequence_n(args)
    /\ pc' = "sequenced"
    /\ UNCHANGED <<conv, mergeVars, contextVars, sent, log, thrown, args, reducerVars,
                 loopVars, built>>

\* composed(ctx), for a context of the composed effect's context type.
Invoke ==
    /\ pc = "sequenced"
    /\ root' = context_from_handler(composed.actions, composed.deps, 1)
    /\ LET st == invoke_effect(composed, root', [log |-> log, thrown |-> FALSE])
       IN  /\ log' = st.log
           /\ thrown' = st.thrown
    /\ pc' = "invoked"
    /\ UNCHANGED <<conv, mergeVars, view, narrowed, sent, sequenceVars, reducerVars,
                 loopVars, built>>

NextSequence == Sequence \/ Invoke

SpecSequence == InitSequence /\ [][NextSequence]_vars

(***************************************************************************)
(* Scenario "reducer": a store calls invoke_reducer with a reducer, its    *)
(* model and an action; its effect handler then runs the effect it was     *)
(* given, with the store's context or with a context of the effect's own   *)
(* type.                                                                   *)
(***************************************************************************)
\* The effects a reducer may return for an action of type t and deps ds:
\* those for which the call of invoke_reducer compiles.
ReducerEffects(t, ds) ==
    {e \in UNION {{result_from_model(x, eds),
                    effect_t(x, eds, NullFn),
                    effect_t(x, eds, Body(1, None)),
                    effect_t(x, eds, Body(1, "A")),
                    effect_t(x, eds, Body(1, "B")),
                    function_t(x, eds, NullFn),
                    function_t(x, eds, HeldNoop),
                    function_t(x, eds, Body(1, "A")),
                    callable_t(Bare(t), ds, Body(1, None)),
                    callable_t(Bare(t), ds, Body(1, t))} :
                   x \in EffectDomains, eds \in DepsValues} :
        /\ has_effect(EffectReducer(e), Bare(t), ds)
        /\ e.fn.kind = "body" /\ e.fn.sends # None =>
              overload(as_actions_t(e.actions), e.fn.sends) # 0}

InitReducer ==
    /\ conv = VariantConv
    /\ pc = "start"
    /\ d1 = Void /\ d2 = Void /\ merged = Void
    /\ root = NoContext /\ view = NoContext /\ narrowed = 0
    /\ sent = <<>> /\ log = <<>> /\ thrown = FALSE
    /\ args = <<>> /\ composed = NoEffect
    /\ \E t \in Types, ds \in DepsValues, m \in {<<>>, <<"B">>} :
         \E r \in {PlainReducer} \cup {EffectReducer(e) : e \in ReducerEffects(t, ds)} :
            call = [reducer |-> r, model |-> m,
                    action |-> ActionValue(t, 0), deps |-> ds]
    /\ returned = <<>>
    /\ handles = <<>> /\ root2 = NoContext /\ lifted = NoContext
    /\ built = NoResult

\* model = invoke_reducer<Deps>(reducer, model, action, handler)
InvokeReducer ==
    /\ pc = "start"
    /\ LET out == invoke_reducer(call.reducer, call.model, call.action, call.deps)
       IN  /\ out # IllFormed
           /\ returned' = out.returned
           /\ log' = log \o out.events
    /\ pc' = "reduced"
    /\ UNCHANGED <<conv, mergeVars, contextVars, sent, thrown, sequenceVars, call,
                 loopVars, built>>

\* The handler calls the effect it was given.
RunEffect ==
    /\ pc = "reduced"
    /\ \E i \in 1..Len(log), own \in BOOLEAN :
          /\ log[i].ev = "effect_handler"
          /\ LET e   == log[i].effect
                 ctx == IF own /\ e.cls # "callable"
                        THEN context_from_handler(e.actions, e.deps, 1)
                        ELSE context_from_handler(Bare(call.action.ty), call.deps, 1)
                 st  == invoke_effect(e, ctx, [log |-> log, thrown |-> FALSE])
             IN  /\ root' = ctx
                 /\ log' = st.log
                 /\ thrown' = st.thrown
    /\ pc' = "ran"
    /\ UNCHANGED <<conv, mergeVars, view, narrowed, sent, sequenceVars, reducerVars,
                 loopVars, built>>

NextReducer == InvokeReducer \/ RunEffect

SpecReducer == InitReducer /\ [][NextReducer]_vars

(***************************************************************************)
(* Scenario "result": a result<Model, Action, Deps> is built from a        *)
(* result of another type, or from a model and an effect of another type.  *)
(* The model types are drawn from the same types, and stand under the      *)
(* same std::is_convertible, as the actions.                               *)
(***************************************************************************)
ResultTypes ==
    [model : Types, actions : Domains \cup {Void}, deps : DepsValues]

InitResult ==
    /\ conv \in ContextConvs
    /\ pc = "start"
    /\ d1 = Void /\ d2 = Void /\ merged = Void
    /\ root = NoContext /\ view = NoContext /\ narrowed = 0
    /\ sent = <<>> /\ log = <<>> /\ thrown = FALSE
    /\ args = <<>> /\ composed = NoEffect
    /\ call = NoCall /\ returned = <<>>
    /\ handles = <<>> /\ root2 = NoContext /\ lifted = NoContext
    /\ \E to \in ResultTypes, from \in ResultTypes, how \in {"result", "model, effect"} :
          built = [outcome |-> "none", to |-> to, from |-> from, how |-> how]

\* result<Model, Action, Deps>{r} or result<Model, Action, Deps>{m, e}
ConstructResult ==
    /\ pc = "start"
    /\ LET e == effect_t(built.from.actions, built.from.deps, Body(1, None))
           r == [model |-> built.from.model, actions |-> built.from.actions,
                 deps |-> built.from.deps, second |-> e]
           made == IF built.how = "result"
                   THEN result_from_result(built.to, r)
                   ELSE result_from_model_effect(built.to, built.from.model, e)
       IN  built' = [to |-> built.to, from |-> built.from, how |-> built.how] @@ made
    /\ pc' = "constructed"
    /\ UNCHANGED <<conv, mergeVars, contextVars, sent, log, thrown, sequenceVars,
                   reducerVars, loopVars>>

NextResult == ConstructResult

SpecResult == InitResult /\ [][NextResult]_vars

(***************************************************************************)
(* Helpers of the properties below.                                        *)
(***************************************************************************)
EventsOf(l, kind) == SelectSeq(l, LAMBDA e : e.ev = kind)

BodyIds(l) ==
    LET bodies == EventsOf(l, "body")
    IN  [i \in 1..Len(bodies) |-> bodies[i].id]

\* What an effect did besides the actions it dispatched.
CallsOf(l) == SelectSeq(l, LAMBDA e : e.ev # "deliver")

\* Empty in the sense of the documentation: null, or holding the noop.
HoldsNothing(e) == e.fn.kind \in {"null", "noop"}

IndicesWhere(s, Test(_)) ==
    LET RECURSIVE from(_)
        from(i) == IF i > Len(s) THEN <<>>
                   ELSE (IF Test(s[i]) THEN <<i>> ELSE <<>>) \o from(i + 1)
    IN  from(1)

MembersOf(x) == {as_actions_t(x)[i] : i \in 1..Len(as_actions_t(x))}

(***************************************************************************)
(* C1.  For two non-empty effects a and b, sequence(a, b) calls nothing    *)
(* by itself; one call of the effect it returns, with a context C, calls   *)
(* a's body and then b's body, each once and each with C's event loop      *)
(* handle, and both have run when that call returns.                       *)
(***************************************************************************)
C1_SequenceCallsAThenB ==
    (Len(args) = 2 /\ args[1].fn.kind = "body" /\ args[2].fn.kind = "body") =>
        /\ pc = "sequenced" => log = <<>>
        /\ pc = "invoked" =>
             /\ ~thrown
             /\ CallsOf(log) = <<[ev |-> "body", id |-> 1, loop |-> root.loop],
                                 [ev |-> "body", id |-> 2, loop |-> root.loop]>>

C1_Witness ==
    /\ pc = "invoked"
    /\ Len(args) = 2
    /\ args[1].fn.kind = "body" /\ args[2].fn.kind = "body"
    /\ args[1].actions # args[2].actions
    /\ BodyIds(log) = <<1, 2>>

(***************************************************************************)
(* C2.  sequence(a, b): when a and b are both empty (null or holding the   *)
(* noop) the effect returned is empty by is_empty_effect; when exactly     *)
(* one is empty, calling the effect returned runs the body of the other    *)
(* one once and calls nothing else.                                        *)
(***************************************************************************)
C2_SequenceOfEmptyEffects ==
    (Len(args) = 2 /\ pc \in {"sequenced", "invoked"}) =>
        /\ (HoldsNothing(args[1]) /\ HoldsNothing(args[2])) =>
              is_empty_effect(composed)
        /\ (pc = "invoked" /\ HoldsNothing(args[1]) /\ ~HoldsNothing(args[2])) =>
              /\ ~thrown
              /\ CallsOf(log) = <<[ev |-> "body", id |-> 2, loop |-> root.loop]>>
        /\ (pc = "invoked" /\ ~HoldsNothing(args[1]) /\ HoldsNothing(args[2])) =>
              /\ ~thrown
              /\ CallsOf(log) = <<[ev |-> "body", id |-> 1, loop |-> root.loop]>>

(***************************************************************************)
(* C3.  sequence(e1, ..., en) with n > 2 is sequence(sequence(e1, e2),     *)
(* e3, ...), and a call of the effect returned runs the bodies of the      *)
(* non-empty arguments in increasing index order, each once, whichever     *)
(* arguments are empty.                                                    *)
(***************************************************************************)
C3_VariadicSequenceRunsInOrder ==
    (Len(args) > 2 /\ pc \in {"sequenced", "invoked"}) =>
        /\ composed = sequence_n(<<sequence(args[1], args[2])>>
                                 \o SubSeq(args, 3, Len(args)))
        /\ pc = "invoked" =>
              BodyIds(log) = IndicesWhere(args, LAMBDA e : ~HoldsNothing(e))

(***************************************************************************)
(* C4.  When an effect-bearing reducer returns a model with the noop       *)
(* effect (as a result built from a model alone does) or with a null       *)
(* effect, invoke_reducer returns that model and the effect handler is     *)
(* not called.                                                             *)
(***************************************************************************)
C4_EmptyEffectSkipsHandler ==
    (pc \in {"reduced", "ran"} /\ call.reducer.paired
        /\ HoldsNothing(call.reducer.second)) =>
        /\ returned = Append(call.model, call.action.ty)
        /\ EventsOf(log, "effect_handler") = <<>>

(***************************************************************************)
(* C5.  When an effect-bearing reducer returns a model and an effect e     *)
(* whose body dispatches an action X, invoke_reducer returns that model    *)
(* and calls the effect handler once, with e.  A call of that effect       *)
(* with a context delivers X once, to a handler of that context that X     *)
(* converts to: the handler of X's own type when the context is of the     *)
(* effect's context type and X is a member of its domain.                  *)
(***************************************************************************)
C5_EffectIsHandedOverAndDispatches ==
    LET e == call.reducer.second
    IN  (call.reducer.paired /\ e.fn.kind = "body" /\ e.fn.sends # None
            /\ pc \in {"reduced", "ran"}) =>
        /\ returned = Append(call.model, call.action.ty)
        /\ EventsOf(log, "effect_handler") = <<[ev |-> "effect_handler", effect |-> e]>>
        /\ pc = "reduced" => EventsOf(log, "deliver") = <<>>
        /\ pc = "ran" =>
              LET ds == EventsOf(log, "deliver")
              IN  /\ ~thrown
                  /\ BodyIds(log) = <<e.fn.id>>
                  /\ Len(ds) = 1
                  /\ ds[1].val.id = e.fn.id
                  /\ ds[1].val.ty = ds[1].slot
                  /\ ds[1].slot \in MembersOf(root.actions)
                  /\ is_convertible(e.fn.sends, ds[1].slot)
                  /\ (e.fn.sends \in MembersOf(root.actions)
                         /\ (e.cls = "callable" \/ root.actions = e.actions)) =>
                        ds[1].slot = e.fn.sends

C5_Witness ==
    /\ pc = "ran"
    /\ call.reducer.paired
    /\ call.reducer.second.cls = "effect"
    /\ call.reducer.second.fn.kind = "body"
    /\ call.reducer.second.fn.sends = "A"
    /\ Len(EventsOf(log, "effect_handler")) = 1
    /\ Len(EventsOf(log, "deliver")) = 1
    /\ log[Len(log)].slot = "V"

(***************************************************************************)
(* C6.  For a reducer whose return value carries no effect, invoke_reducer *)
(* calls the reducer once, returns what the reducer returned and does not  *)
(* call the effect handler.                                                *)
(***************************************************************************)
C6_PlainReducer ==
    (pc \in {"reduced", "ran"}
        /\ ~has_effect(reducer_call(call.reducer, call.model, call.action),
                       Bare(call.action.ty), call.deps)) =>
        /\ returned = reducer_call(call.reducer, call.model, call.action).first
        /\ log = <<[ev |-> "reducer", model |-> call.model, action |-> call.action]>>

C6_Witness ==
    /\ pc = "reduced"
    /\ ~call.reducer.paired
    /\ call.model = <<"B">>
    /\ returned = <<"B", "A">>
    /\ Len(log) = 1

(***************************************************************************)
(* C7.  On a dispatcher built over a domain, with each member's handler    *)
(* its own, dispatching an action whose type is a member calls that        *)
(* member's handler once, with the action as it is, and calls no other     *)
(* handler; so also when the type converts to another member.              *)
(***************************************************************************)
C7_DispatchCallsOwnHandler ==
    \A n \in 1..Len(sent) :
        (sent[n].on = "root" /\ sent[n].val.ty \in MembersOf(root.actions)) =>
            log = <<[ev |-> "deliver", slot |-> sent[n].val.ty, val |-> sent[n].val]>>

C7_Witness ==
    /\ pc = "dispatched"
    /\ root.actions = Actions(<<"V", "A">>)
    /\ is_convertible("A", "V")
    /\ sent[1].on = "root"
    /\ sent[1].val.ty = "A"
    /\ log[1].slot = "A"

(***************************************************************************)
(* C8.  On a context converted, without a converter, from a context over   *)
(* another domain, a dispatched action whose type A is a member of the     *)
(* new domain is delivered once, to a handler of the original context,     *)
(* as a value of that handler's type made from the action; after a single  *)
(* conversion that handler is one for a type that A converts to.           *)
(***************************************************************************)
C8_NarrowedContextForwards ==
    \A n \in 1..Len(sent) :
        (sent[n].on = "view" /\ narrowed >= 1
            /\ sent[n].val.ty \in MembersOf(view.actions)) =>
            /\ Len(log) = 1
            /\ log[1].ev = "deliver"
            /\ log[1].slot \in MembersOf(root.actions)
            /\ log[1].val.ty = log[1].slot
            /\ log[1].val.id = sent[n].val.id
            /\ narrowed = 1 => is_convertible(sent[n].val.ty, log[1].slot)

C8_Witness ==
    /\ pc = "dispatched"
    /\ narrowed = 1
    /\ root.actions = Actions(<<"B", "V">>)
    /\ view.actions = Bare("A")
    /\ sent[1].on = "view"
    /\ sent[1].val.ty = "A"
    /\ log[1].slot = "V"
    /\ log[1].val.trail = <<<<"A", "V">>>>

(***************************************************************************)
(* C9.  For non-empty domains D1 and D2 and a reflexive convertibility     *)
(* relation, merge(D1, D2) is non-empty and every member of D1 and of D2   *)
(* converts to some member of it.                                          *)
(***************************************************************************)
C9_MergeCoversBoth ==
    pc = "merged" =>
        /\ as_actions_t(merged) # <<>>
        /\ \A x \in MembersOf(d1) \cup MembersOf(d2) :
              \E t \in MembersOf(merged) : is_convertible(x, t)

C9_Witness ==
    /\ pc = "merged"
    /\ Len(as_actions_t(d1)) = 2
    /\ \E x \in MembersOf(d1) : x \notin MembersOf(merged)
    /\ \E x \in MembersOf(d1) : x \in MembersOf(merged) /\ x \notin MembersOf(d2)

(***************************************************************************)
(* C10.  For a domain D of a single member A, merge(D, D) is the bare      *)
(* type A, without an actions<> wrapper.                                   *)
(***************************************************************************)
C10_MergeWithItself ==
    (pc = "merged" /\ Len(as_actions_t(d1)) = 1
        /\ as_actions_t(d1) = as_actions_t(d2)) =>
        merged = Bare(as_actions_t(d1)[1])

C10_Witness ==
    /\ pc = "merged"
    /\ d1 = Actions(<<"A">>)
    /\ d2 = d1
    /\ merged = Bare("A")


(***************************************************************************)
(* C11.  is_empty_effect(e), for an effect e, is true exactly when e       *)
(* holds no callable or holds the noop; for any other procedure held,      *)
(* one that does nothing included, it is false.  invoke_reducer applies    *)
(* it to the effect the reducer returned.                                  *)
(***************************************************************************)
C11_IsEmptyEffectExactlyWhenNullOrNoop ==
    (pc \in {"reduced", "ran"} /\ call.reducer.paired
        /\ call.reducer.second.cls = "effect") =>
        (is_empty_effect(call.reducer.second) <=> HoldsNothing(call.reducer.second))

(***************************************************************************)
(* C12.  Every context made from the store's context by copies and         *)
(* conversions, with or without a converter, holds the event loop handle   *)
(* of the store's context; only the constructor taking a dispatcher, an    *)
(* event loop and deps makes a new handle, one per call; and loop() on     *)
(* each of these contexts reaches the host loop the store's context was    *)
(* built with.                                                             *)
(***************************************************************************)
C12_DerivedContextsShareTheLoop ==
    /\ pc # "start" =>
          /\ root.loop \in 1..Len(handles)
          /\ view.loop = root.loop
          /\ lifted # NoContext => lifted.loop = root.loop
          /\ Len(handles) = IF root2 = NoContext THEN 1 ELSE 2
          /\ root2 # NoContext =>
                (root2.loop \in 1..Len(handles) /\ root2.loop # root.loop)
    /\ pc = "scheduled" =>
          \A i \in 1..Len(log) :
              IF log[i].on = "root2"
              THEN log[i].call = [handle |-> root2.loop, host |-> handles[root2.loop]]
              ELSE log[i].call = [handle |-> root.loop, host |-> "loop1"]

C12_Witness ==
    /\ pc = "scheduled"
    /\ narrowed = 2
    /\ view.actions # root.actions
    /\ lifted # NoContext
    /\ lifted.actions # view.actions
    /\ handles = <<"loop1", "loop2">>
    /\ [i \in 1..Len(log) |-> log[i].on] = <<"root", "view", "lifted", "root2">>
    /\ [i \in 1..Len(log) |-> log[i].call.host] = <<"loop1", "loop1", "loop1", "loop2">>

(***************************************************************************)
(* C13.  A result<Model, Actions, Deps> is constructed from a              *)
(* result<Model2, Actions2, Deps2>, or from a Model2 and an                *)
(* effect<Actions2, Deps2>, exactly when Model2 converts to Model, every   *)
(* member of Actions2 converts to a member of Actions, and Deps converts   *)
(* to Deps2; when one of the three fails the construction is ill-formed.   *)
(***************************************************************************)
C13_ResultConstructionIsChecked ==
    pc = "constructed" =>
        LET a2 == as_actions_t(built.from.actions)
            a  == as_actions_t(built.to.actions)
            all_three ==
                /\ <<built.from.model, built.to.model>> \in conv
                /\ \A i \in 1..Len(a2) : \E j \in 1..Len(a) : <<a2[i], a[j]>> \in conv
                /\ deps_convertible(built.to.deps, built.from.deps)
        IN  /\ all_three => built.outcome = "constructed"
            /\ ~all_three => built.outcome = "ill-formed"

C13_Witness ==
    /\ pc = "constructed"
    /\ built.outcome = "constructed"
    /\ built.how = "result"
    /\ built.from.model # built.to.model
    /\ built.from.actions = Bare("A")
    /\ built.to.actions = Actions(<<"B", "V">>)
    /\ built.from.deps = {}
    /\ built.to.deps = {"svc"}
    /\ built.second.fn = HeldEffect(effect_t(Bare("A"), {}, Body(1, None)))

\* The positions of the first member of a list that type t converts to.
FirstTarget(t, members) ==
    {k \in 1..Len(members) :
        /\ <<t, members[k]>> \in conv
        /\ \A j \in 1..(k - 1) : <<t, members[j]>> \notin conv}

PositionOf(t, members) == CHOOSE i \in 1..Len(members) : members[i] = t

(***************************************************************************)
(* C14.  A dispatcher over D built from a dispatcher over another domain   *)
(* D' forwards each member A of D to the function the source has for the   *)
(* first member B of D' that A converts to; built with a converter (from   *)
(* any D') it forwards A to the function for the first B that the          *)
(* converter's result type for A converts to.  Such a B exists for every   *)
(* member of a dispatcher that was built.  A dispatched A goes through     *)
(* the converter once, when there is one, and the value made from it is    *)
(* delivered once, through the source's function for B.                    *)
(***************************************************************************)
C14_DispatcherForwardsToFirstConvertible ==
    LET rootD == as_actions_t(root.actions)
        viewD == as_actions_t(view.actions)
        liftD == as_actions_t(lifted.actions)
    IN  /\ (narrowed = 1 /\ viewD # rootD) =>
              /\ \A i \in 1..Len(viewD) : \E k \in FirstTarget(viewD[i], rootD) :
                    view.dispatcher[i] =
                        IF rootD[k] = viewD[i] THEN root.dispatcher[k]
                        ELSE <<viewD[i]>> \o root.dispatcher[k]
              /\ \A n \in 1..Len(sent) :
                    (sent[n].on = "view" /\ sent[n].val.ty \in MembersOf(view.actions)) =>
                        \E k \in FirstTarget(sent[n].val.ty, rootD) :
                            log = <<[ev   |-> "deliver",
                                     slot |-> rootD[k],
                                     val  |-> convert_to(sent[n].val, rootD[k])]>>
        /\ lifted # NoContext =>
              /\ \E c \in Converters : \A i \in 1..Len(liftD) :
                    \E k \in FirstTarget(converter_result(c, liftD[i]), viewD) :
                        lifted.dispatcher[i] = <<liftD[i], c>> \o view.dispatcher[k]
              /\ \A n \in 1..Len(sent) :
                    (sent[n].on = "lifted" /\ sent[n].val.ty \in MembersOf(lifted.actions)) =>
                        LET a == sent[n].val.ty
                            c == lifted.dispatcher[PositionOf(a, liftD)][2]
                            r == converter_result(c, a)
                            converted == [ty    |-> r,
                                          id    |-> sent[n].val.id,
                                          trail |-> <<<<c, a>>>>]
                        IN  \E k \in FirstTarget(r, viewD) :
                                log = <<invoke_function(view.dispatcher[k], converted)>>

C14_Witness ==
    /\ pc = "dispatched"
    /\ is_convertible("B", "V")
    /\ ~is_convertible("A", "B")
    /\ view.actions = Actions(<<"B", "V">>)
    /\ lifted.actions = Bare("A")
    /\ lifted.dispatcher = <<<<"A", "make_B", "B">>>>
    /\ sent[1] = [on |-> "lifted", val |-> ActionValue("A", 1)]
    /\ log = <<[ev   |-> "deliver",
                slot |-> "B",
                val  |-> [ty |-> "B", id |-> 1, trail |-> <<<<"make_B", "A">>>>]]>>

\* A list of types in which no member converts to another one.
NoneConvertsToAnother(members) ==
    \A i, j \in 1..Len(members) :
        (members[i] # members[j]) => <<members[i], members[j]>> \notin conv

(***************************************************************************)
(* C15.  When neither D1 nor D2 has two distinct members of which one      *)
(* converts to the other, merge(D1, D2) has no two distinct members of     *)
(* which one converts to the other.                                        *)
(***************************************************************************)
C15_MergeKeepsMostGeneralOnly ==
    (pc = "merged"
        /\ NoneConvertsToAnother(as_actions_t(d1))
        /\ NoneConvertsToAnother(as_actions_t(d2))) =>
        NoneConvertsToAnother(as_actions_t(merged))

\* The members of rest, in order, added to acc unless they convert to a
\* member that acc has by then.
RECURSIVE AppendUnlessAbsorbed(_, _)
AppendUnlessAbsorbed(rest, acc) ==
    IF rest = <<>> THEN acc
    ELSE IF \E i \in 1..Len(acc) : <<Head(rest), acc[i]>> \in conv
    THEN AppendUnlessAbsorbed(Tail(rest), acc)
    ELSE AppendUnlessAbsorbed(Tail(rest), Append(acc, Head(rest)))

(***************************************************************************)
(* C16.  merge(D1, D2) is D2, in its order, followed by the members of D1  *)
(* in D1's order that convert to no member of D2 and to no member of D1    *)
(* added before them; no member of D2 is removed, whatever converts to     *)
(* what.                                                                   *)
(***************************************************************************)
C16_MergeIsD2ThenUnabsorbedD1 ==
    pc = "merged" =>
        LET r  == as_actions_t(merged)
            a1 == as_actions_t(d1)
            a2 == as_actions_t(d2)
        IN  /\ Len(r) >= Len(a2)
            /\ SubSeq(r, 1, Len(a2)) = a2
            /\ r = AppendUnlessAbsorbed(a1, a2)
            /\ \A i \in (Len(a2) + 1)..Len(r) : r[i] \in MembersOf(d1)

C16_Witness ==
    /\ pc = "merged"
    /\ is_convertible("A", "V")
    /\ is_convertible("B", "V")
    /\ d1 = Actions(<<"V", "A">>)
    /\ d2 = Actions(<<"A", "B">>)
    /\ merged = Actions(<<"A", "B", "V">>)

(***************************************************************************)
(* C17.  In one invoke_reducer call with a reducer that returns an         *)
(* effect, the reducer is called once, with the model and the action       *)
(* given, and before the effect handler; the handler is called at most     *)
(* once; invoke_reducer calls no effect body itself; and the model         *)
(* returned is the one the reducer made, also after the handler's run of   *)
(* the effect, whether that run ends normally or by an exception.          *)
(***************************************************************************)
C17_ReducerThenHandlerOnce ==
    (pc \in {"reduced", "ran"}
        /\ has_effect(reducer_call(call.reducer, call.model, call.action),
                      Bare(call.action.ty), call.deps)) =>
        /\ log[1] = [ev |-> "reducer", model |-> call.model, action |-> call.action]
        /\ Len(EventsOf(log, "reducer")) = 1
        /\ Len(EventsOf(log, "effect_handler")) <= 1
        /\ \A i \in 1..Len(log) : log[i].ev = "effect_handler" => i = 2
        /\ pc = "reduced" =>
              \A i \in 1..Len(log) : log[i].ev \in {"reducer", "effect_handler"}
        /\ \A i \in 1..Len(log) :
              log[i].ev \notin {"reducer", "effect_handler"} =>
                  (i > 2 /\ log[2].ev = "effect_handler")
        /\ returned = Append(call.model, call.action.ty)

C17_Witness ==
    /\ pc = "ran"
    /\ call.reducer.paired
    /\ call.reducer.second.cls = "function"
    /\ call.model = <<"B">>
    /\ returned = <<"B", "A">>
    /\ Len(log) = 4
    /\ [i \in 1..Len(log) |-> log[i].ev] = <<"reducer", "effect_handler", "body", "deliver">>

====
